---- MODULE Spec2Model ----
(***************************************************************************)
(* A model of the WAV decoder read_wav (audio_converter.cpp) and of the    *)
(* model-handle lifecycle of the JNI entry points (whisper_jni.cpp).       *)
(*                                                                         *)
(* Files are sequences of bytes.  The 44-byte WavHeader is decoded from    *)
(* the bytes little-endian, as fread into the packed struct does on the    *)
(* little-endian Android targets.  32-bit quantities are kept as two       *)
(* 16-bit halves [hi, lo], because TLC's integers are 32-bit signed        *)
(* and an unsigned 32-bit value of 2^31 or more does not fit them.         *)
(* float values are kept as [m, e], meaning m * 2^e, with a significand    *)
(* of at most 24 bits, and every float operation rounds to nearest, ties   *)
(* to even, as IEEE-754 binary32 does.                                     *)
(***************************************************************************)
EXTENDS Integers, Sequences, FiniteSets, TLC

\* ------------------------------------------------------------------ bounds

\* Largest declared payload size (header.data_size) drawn for an input file.
MaxDataSize == 9
\* Largest number of payload bytes actually stored after the header.
MaxPayload == 8
\* Most whisper contexts whisper_init_from_file hands out in one run.
MaxContexts == 3
\* Largest quotient drawn for the undefined division by zero at line 62.
MaxUBQuotient == 1

\* ------------------------------------------------------- integer helpers

RECURSIVE Pow2(_)
Pow2(n) == IF n <= 0 THEN 1 ELSE 2 * Pow2(n - 1)

Min(a, b) == IF a <= b THEN a ELSE b

\* INT32_MIN, written without the literal 2147483648.
MinInt32 == (-32768) * 65536

\* An unsigned 32-bit value as its two 16-bit halves.
U32(hi, lo) == [hi |-> hi, lo |-> lo]
U32OfNat(n) == U32(n \div 65536, n % 65536)

\* The value of a uint32_t that is below 2^31, as a number.
U32ToNat(u) == u.hi * 65536 + u.lo

\* uint32_t -> int, the conversion of `sample_rate = header.sample_rate`
\* and of the int32_t sample words: two's complement, 2^31 and above wrap
\* to the negative numbers.
U32ToInt32(u) ==
    IF u.hi >= 32768 THEN (u.hi - 65536) * 65536 + u.lo
    ELSE u.hi * 65536 + u.lo

\* uint16_t -> int16_t.
U16ToInt16(v) == IF v >= 32768 THEN v - 65536 ELSE v

\* Unsigned 32-bit division by a divisor 1..65535, by long division on the
\* halves (every intermediate stays below 2^31).
DivU32(u, d) ==
    LET qh  == u.hi \div d
        rem == u.hi % d
        low == rem * 65536 + u.lo
    IN  U32(qh, low \div d)

\* ------------------------------------------------------- byte decoding

U16At(b, off) == b[off + 1] + 256 * b[off + 2]
U32At(b, off) == U32(U16At(b, off + 2), U16At(b, off))
TagAt(b, off) == SubSeq(b, off + 1, off + 4)

LE16(v) == << v % 256, v \div 256 >>
LE32(u) == LE16(u.lo) \o LE16(u.hi)

\* sizeof(WavHeader): 4+4+4+4+4+2+2+4+4+2+2+4+4, no padding.
WavHeaderSize == 44

\* The WavHeader struct, as fread fills it from the first 44 bytes.
ParseHeader(b) ==
    [ riff            |-> TagAt(b, 0),
      file_size       |-> U32At(b, 4),
      wave            |-> TagAt(b, 8),
      fmt             |-> TagAt(b, 12),
      fmt_size        |-> U32At(b, 16),
      audio_format    |-> U16At(b, 20),
      num_channels    |-> U16At(b, 22),
      sample_rate     |-> U32At(b, 24),
      byte_rate       |-> U32At(b, 28),
      block_align     |-> U16At(b, 32),
      bits_per_sample |-> U16At(b, 34),
      data            |-> TagAt(b, 36),
      data_size       |-> U32At(b, 40) ]

\* The bytes of a header record (what a WAV writer stores).
EncodeHeader(h) ==
    h.riff \o LE32(h.file_size) \o h.wave \o h.fmt \o LE32(h.fmt_size)
      \o LE16(h.audio_format) \o LE16(h.num_channels) \o LE32(h.sample_rate)
      \o LE32(h.byte_rate) \o LE16(h.block_align) \o LE16(h.bits_per_sample)
      \o h.data \o LE32(h.data_size)

\* "RIFF", "WAVE" and the other tags as ASCII bytes.
TagRIFF == << 82, 73, 70, 70 >>
TagRIFX == << 82, 73, 70, 88 >>
TagWAVE == << 87, 65, 86, 69 >>
TagWave == << 119, 97, 118, 101 >>
TagFmt  == << 102, 109, 116, 32 >>
TagData == << 100, 97, 116, 97 >>
TagLIST == << 76, 73, 83, 84 >>

\* ------------------------------------------------------------- float32

Float(m, e) == [m |-> m, e |-> e]
FZero == Float(0, 0)

\* The canonical form: zero, or an odd significand.
RECURSIVE Canon(_, _)
Canon(m, e) ==
    IF m = 0 THEN FZero
    ELSE IF m % 2 = 0 THEN Canon(m \div 2, e + 1)
    ELSE Float(m, e)

\* How many low bits an integer must lose to fit a 24-bit significand.
RECURSIVE ExcessBits(_, _)
ExcessBits(x, k) ==
    IF k >= 7 \/ (x <= Pow2(24 + k) /\ x >= -Pow2(24 + k)) THEN k
    ELSE ExcessBits(x, k + 1)

\* Number of bits of a positive significand.
RECURSIVE BitLen(_)
BitLen(x) == IF x <= 0 THEN 0 ELSE 1 + BitLen(x \div 2)

Abs(x) == IF x < 0 THEN -x ELSE x

\* (x + f) * 2^e rounded to binary32, where f is a fraction in (0,1) when
\* sticky and 0 otherwise: round to nearest, ties to even.
RoundToFloat(x, e, sticky) ==
    LET k    == ExcessBits(x, 0)
        q    == x \div Pow2(k)
        r    == x % Pow2(k)
        half == Pow2(k - 1)
        up   == k > 0 /\ (r > half \/ (r = half /\ (sticky \/ q % 2 = 1)))
    IN  IF k = 0 THEN Canon(x, e)
        ELSE Canon(IF up THEN q + 1 ELSE q, e + k)

\* static_cast<float>(int32_t).
IntToFloat(s) == RoundToFloat(s, 0, FALSE)

\* Division of a float by 2^p (exact: the exponent moves).
FDivPow2(f, p) == IF f.m = 0 THEN FZero ELSE Float(f.m, f.e - p)

\* Alignment of two nonzero floats for an addition: the integer sum in
\* units of 2^e, with the bits of the smaller operand shifted out
\* remembered in sticky.
FAlign(a, b) ==
    LET hi == IF a.e >= b.e THEN a ELSE b
        lo == IF a.e >= b.e THEN b ELSE a
        d  == hi.e - lo.e
        dd == Min(d, 29 - BitLen(Abs(hi.m)))
        t  == d - dd
    IN  [ x      |-> hi.m * Pow2(dd) + (lo.m \div Pow2(t)),
          e      |-> lo.e + t,
          sticky |-> t > 0 /\ lo.m % Pow2(t) # 0 ]

\* float + float.
FAdd(a, b) ==
    IF a.m = 0 THEN b
    ELSE IF b.m = 0 THEN a
    ELSE LET al == FAlign(a, b) IN RoundToFloat(al.x, al.e, al.sticky)

\* ---------------------------------------------------- sample conversion

\* static_cast<float>(samples[i]) / 32768.0f
Normalize16(s) == FDivPow2(IntToFloat(s), 15)

\* The 32-bit branch dividing by the 16-bit branch's 32768.
Normalize32By32768(s) == FDivPow2(IntToFloat(s), 15)

\* static_cast<float>(samples[i]) / 2147483648.0f
Normalize32(s) == FDivPow2(IntToFloat(s), 31)

\* (pcm_data[i * 2] + pcm_data[i * 2 + 1]) / 2.0f
Mean2(a, b) == FDivPow2(FAdd(a, b), 1)

\* ---------------------------------------------------------------- stdio

\* A fread that reports every item asked for, short file or not.
FreadIgnoresShort(f, pos, size, nmemb) == nmemb

\* fread(buf, size, nmemb, file) at position pos: the number of complete
\* items the remaining bytes hold, at most nmemb.
Fread(f, pos, size, nmemb) == Min(nmemb, (Len(f) - pos) \div size)

\* A byte of a zero-initialized buffer that fread filled from offset off
\* of the file: the file's byte, or 0 where the file had ended.
BufByte(f, off) == IF off < Len(f) THEN f[off + 1] ELSE 0

\* std::vector<int16_t> samples(n) after fread(samples.data(), 2, n, file).
Samples16(f, pos, n) ==
    [i \in 1..n |->
       U16ToInt16(BufByte(f, pos + 2 * (i - 1))
                  + 256 * BufByte(f, pos + 2 * (i - 1) + 1))]

\* std::vector<int32_t> samples(n) after fread(samples.data(), 4, n, file).
Samples32(f, pos, n) ==
    [i \in 1..n |->
       U32ToInt32(U32(BufByte(f, pos + 4 * (i - 1) + 2)
                      + 256 * BufByte(f, pos + 4 * (i - 1) + 3),
                      BufByte(f, pos + 4 * (i - 1))
                      + 256 * BufByte(f, pos + 4 * (i - 1) + 1)))]

\* std::vector<float>::resize(n): the prefix kept, the rest zero.
Resize(v, n) == [i \in 1..n |-> IF i <= Len(v) THEN v[i] ELSE FZero]

\* A validation that forgets the WAVE tag.
MagicOkRiffOnly(h) == h.riff = TagRIFF

\* memcmp(header.riff, "RIFF", 4) == 0 && memcmp(header.wave, "WAVE", 4) == 0
MagicOk(h) == h.riff = TagRIFF /\ h.wave = TagWAVE

\* header.bits_per_sample / 8, the divisor of line 62.
BytesPerSample(h) == h.bits_per_sample \div 8

\* header.data_size / (header.bits_per_sample / 8), for a nonzero divisor.
NumSamples(h) == U32ToNat(DivU32(h.data_size, BytesPerSample(h)))

\* The stereo-to-mono loop of lines 99-102 (1-based indices here).
DownmixStereo(v, n) == [i \in 1..(n \div 2) |-> Mean2(v[2 * i - 1], v[2 * i])]

\* ------------------------------------------------------------- inputs

\* The header fields read_wav never looks at, as a canonical PCM writer
\* sets them and as garbage.
Canonical ==
    [ fmt |-> TagFmt, fmt_size |-> U32(0, 16), audio_format |-> 1,
      byte_rate |-> U32(0, 32000), block_align |-> 2, data |-> TagData ]
Garbage ==
    [ fmt |-> TagLIST, fmt_size |-> U32(65535, 65535), audio_format |-> 3,
      byte_rate |-> U32(0, 0), block_align |-> 0, data |-> TagLIST ]
Unchecked == { Canonical, Garbage }

RiffTags == { TagRIFF, TagRIFX }
WaveTags == { TagWAVE, TagWave }
Channels == { 0, 1, 2, 3 }
BitDepths == { 0, 7, 8, 16, 24, 32 }
\* 0, 16000, 2^31 - 1 and 2^31.
SampleRates == { U32(0, 0), U32(0, 16000), U32(32767, 65535), U32(32768, 0) }

MakeHeader(riff, wave, u, ch, bits, rate, size) ==
    [ riff |-> riff, file_size |-> U32OfNat(36 + size), wave |-> wave,
      fmt |-> u.fmt, fmt_size |-> u.fmt_size, audio_format |-> u.audio_format,
      num_channels |-> ch, sample_rate |-> rate, byte_rate |-> u.byte_rate,
      block_align |-> u.block_align, bits_per_sample |-> bits,
      data |-> u.data, data_size |-> U32OfNat(size) ]

Headers ==
    { MakeHeader(r, w, u, ch, b, sr, sz) :
        r \in RiffTags, w \in WaveTags, u \in Unchecked, ch \in Channels,
        b \in BitDepths, sr \in SampleRates, sz \in 0..MaxDataSize }

\* Two payloads, repeated to the length asked for: the int16 samples
\* 16384, -16384, 8192, 8192 and the int32 samples 2147483647, 1.
Pattern16 == << 0, 64, 0, 192, 0, 32, 0, 32 >>
Pattern32 == << 255, 255, 255, 127, 1, 0, 0, 0 >>
Patterns == { Pattern16, Pattern32 }
Payload(p, n) == [i \in 1..n |-> p[((i - 1) % Len(p)) + 1]]

\* Lengths at which a file ends inside its header.
HeaderCuts == { 0, 20, 43 }

\* A file with a whole header and n payload bytes, and a file that ends
\* after c bytes of its header.
FullFile(h, p, n) == EncodeHeader(h) \o Payload(p, n)
CutFile(h, c) == SubSeq(EncodeHeader(h), 1, c)

\* -------------------------------------------------------------- state

VARIABLES
    pc,            \* where read_wav stands: a line of audio_converter.cpp
    exists,        \* whether fopen can open the path
    file,          \* the bytes of the file at the path
    handle,        \* the FILE*: "none", "open" or "closed"
    closes,        \* how many times fclose ran in this call
    pos,           \* the file position
    header,        \* the WavHeader local
    num_samples,   \* the num_samples local
    pcm_data,      \* the caller's std::vector<float>
    sample_rate,   \* the caller's int
    ret,           \* read_wav's return value: "none", "true", "false"
    err,           \* the last LOGE message of the call
    g_context,     \* the global whisper_context* (0 is nullptr)
    live,          \* contexts created and not freed
    freed,         \* contexts freed
    badFree,       \* whisper_free ran on a context that was not live
    badUse,        \* whisper_full ran on a context that was not live
    jpc,           \* the JNI entry point running: "idle" or "transcribe"
    jret,          \* the last JNI call and what it returned
    histLoaded     \* history: the last load succeeded and no unload followed

wavVars == << pc, exists, file, handle, closes, pos, header, num_samples,
              pcm_data, sample_rate, ret, err >>
jniVars == << g_context, live, freed, badFree, badUse, jpc, jret, histLoaded >>
vars == << pc, exists, file, handle, closes, pos, header, num_samples,
           pcm_data, sample_rate, ret, err,
           g_context, live, freed, badFree, badUse, jpc, jret, histLoaded >>

\* The header local before fread fills it.
NoHeader == MakeHeader(<<>>, <<>>, Canonical, 0, 0, U32(0, 0), 0)

Init ==
    /\ pc = "idle"
    /\ exists = FALSE
    /\ file = <<>>
    /\ handle = "none"
    /\ closes = 0
    /\ pos = 0
    /\ header = NoHeader
    /\ num_samples = 0
    /\ pcm_data = <<>>
    /\ sample_rate = 0
    /\ ret = "none"
    /\ err = ""
    /\ g_context = 0
    /\ live = {}
    /\ freed = {}
    /\ badFree = FALSE
    /\ badUse = FALSE
    /\ jpc = "idle"
    /\ jret = << "none", "" >>
    /\ histLoaded = FALSE

\* --------------------------------------------------------- read_wav

\* The call read_wav(audio_path, pcm_data, sample_rate) with the caller's
\* fresh locals: an empty vector and sample_rate = 0.
EnterReadWav(ex, f) ==
    /\ exists' = ex
    /\ file' = f
    /\ handle' = "none"
    /\ closes' = 0
    /\ pos' = 0
    /\ header' = NoHeader
    /\ num_samples' = 0
    /\ pcm_data' = <<>>
    /\ sample_rate' = 0
    /\ ret' = "none"
    /\ err' = ""
    /\ pc' = "fopen"

\* fclose(file); return false;  after LOGE(msg).
FailClosing(msg) ==
    /\ err' = msg
    /\ handle' = "closed"
    /\ closes' = closes + 1
    /\ ret' = "false"
    /\ pc' = "done"

\* Lines 33-37, fopen fails.
FopenFail ==
    /\ pc = "fopen"
    /\ ~exists
    /\ err' = "Failed to open WAV file"
    /\ ret' = "false"
    /\ pc' = "done"
    /\ UNCHANGED << exists, file, handle, closes, pos, header, num_samples,
                    pcm_data, sample_rate >>
    /\ UNCHANGED jniVars

\* Line 33, fopen succeeds.
FopenOk ==
    /\ pc = "fopen"
    /\ exists
    /\ handle' = "open"
    /\ pos' = 0
    /\ pc' = "read_header"
    /\ UNCHANGED << exists, file, closes, header, num_samples, pcm_data,
                    sample_rate, ret, err >>
    /\ UNCHANGED jniVars

\* Lines 41-45, fewer than sizeof(WavHeader) bytes.
ReadHeaderFail ==
    /\ pc = "read_header"
    /\ Fread(file, pos, WavHeaderSize, 1) # 1
    /\ FailClosing("Failed to read WAV header")
    /\ UNCHANGED << exists, file, pos, header, num_samples, pcm_data,
                    sample_rate >>
    /\ UNCHANGED jniVars

\* Line 41, the header is read.
ReadHeaderOk ==
    /\ pc = "read_header"
    /\ Fread(file, pos, WavHeaderSize, 1) = 1
    /\ header' = ParseHeader(SubSeq(file, pos + 1, pos + WavHeaderSize))
    /\ pos' = pos + WavHeaderSize
    /\ pc' = "validate"
    /\ UNCHANGED << exists, file, handle, closes, num_samples, pcm_data,
                    sample_rate, ret, err >>
    /\ UNCHANGED jniVars

\* Lines 48-53, a magic tag differs.
MagicFail ==
    /\ pc = "validate"
    /\ ~MagicOk(header)
    /\ FailClosing("Invalid WAV file format")
    /\ UNCHANGED << exists, file, pos, header, num_samples, pcm_data,
                    sample_rate >>
    /\ UNCHANGED jniVars

\* Line 48, both tags match.
MagicPass ==
    /\ pc = "validate"
    /\ MagicOk(header)
    /\ pc' = "count"
    /\ UNCHANGED << exists, file, handle, closes, pos, header, num_samples,
                    pcm_data, sample_rate, ret, err >>
    /\ UNCHANGED jniVars

\* Lines 59-63 with a nonzero divisor: the sample rate is stored, the
\* sample count computed and the caller's vector resized.
ComputeNumSamples ==
    /\ pc = "count"
    /\ BytesPerSample(header) # 0
    /\ sample_rate' = U32ToInt32(header.sample_rate)
    /\ num_samples' = NumSamples(header)
    /\ pcm_data' = Resize(pcm_data, NumSamples(header))
    /\ pc' = "dispatch"
    /\ UNCHANGED << exists, file, handle, closes, pos, header, ret, err >>
    /\ UNCHANGED jniVars

\* Lines 59-62 with bits_per_sample below 8: the division by zero is
\* undefined.  On x86 it traps (SIGFPE) and the process dies inside the
\* call, the handle still open.
DivByZeroTrap ==
    /\ pc = "count"
    /\ BytesPerSample(header) = 0
    /\ sample_rate' = U32ToInt32(header.sample_rate)
    /\ pc' = "crashed"
    /\ UNCHANGED << exists, file, handle, closes, pos, header, num_samples,
                    pcm_data, ret, err >>
    /\ UNCHANGED jniVars

\* The same division where the instruction does not trap (ARM's udiv gives
\* 0): the call goes on with some quotient.
DivByZeroContinue ==
    /\ pc = "count"
    /\ BytesPerSample(header) = 0
    /\ \E q \in 0..MaxUBQuotient :
         /\ num_samples' = q
         /\ pcm_data' = Resize(pcm_data, q)
    /\ sample_rate' = U32ToInt32(header.sample_rate)
    /\ pc' = "dispatch"
    /\ UNCHANGED << exists, file, handle, closes, pos, header, ret, err >>
    /\ UNCHANGED jniVars

\* The short-payload return without its fclose.
Read16FailLeak ==
    /\ pc = "dispatch"
    /\ header.bits_per_sample = 16
    /\ Fread(file, pos, 2, num_samples) # num_samples
    /\ err' = "Failed to read PCM data"
    /\ ret' = "false"
    /\ pc' = "done"
    /\ UNCHANGED << exists, file, handle, closes, pos, header, num_samples,
                    pcm_data, sample_rate >>
    /\ UNCHANGED jniVars

\* Lines 66-72, the 16-bit payload is short.
Read16Fail ==
    /\ pc = "dispatch"
    /\ header.bits_per_sample = 16
    /\ Fread(file, pos, 2, num_samples) # num_samples
    /\ FailClosing("Failed to read PCM data")
    /\ UNCHANGED << exists, file, pos, header, num_samples, pcm_data,
                    sample_rate >>
    /\ UNCHANGED jniVars

\* Lines 66-77, the 16-bit samples are read and normalized.
Convert16 ==
    /\ pc = "dispatch"
    /\ header.bits_per_sample = 16
    /\ Fread(file, pos, 2, num_samples) = num_samples
    /\ pcm_data' = [i \in 1..num_samples |->
                      Normalize16(Samples16(file, pos, num_samples)[i])]
    /\ pos' = Min(pos + 2 * num_samples, Len(file))
    /\ pc' = "downmix"
    /\ UNCHANGED << exists, file, handle, closes, header, num_samples,
                    sample_rate, ret, err >>
    /\ UNCHANGED jniVars

\* Lines 78-84, the 32-bit payload is short.
Read32Fail ==
    /\ pc = "dispatch"
    /\ header.bits_per_sample = 32
    /\ Fread(file, pos, 4, num_samples) # num_samples
    /\ FailClosing("Failed to read PCM data")
    /\ UNCHANGED << exists, file, pos, header, num_samples, pcm_data,
                    sample_rate >>
    /\ UNCHANGED jniVars

\* Lines 78-89, the 32-bit samples are read and normalized.
Convert32 ==
    /\ pc = "dispatch"
    /\ header.bits_per_sample = 32
    /\ Fread(file, pos, 4, num_samples) = num_samples
    /\ pcm_data' = [i \in 1..num_samples |->
                      Normalize32(Samples32(file, pos, num_samples)[i])]
    /\ pos' = Min(pos + 4 * num_samples, Len(file))
    /\ pc' = "downmix"
    /\ UNCHANGED << exists, file, handle, closes, header, num_samples,
                    sample_rate, ret, err >>
    /\ UNCHANGED jniVars

\* Lines 90-94, any other bit depth.
UnsupportedDepth ==
    /\ pc = "dispatch"
    /\ header.bits_per_sample \notin { 16, 32 }
    /\ FailClosing("Unsupported bit depth")
    /\ UNCHANGED << exists, file, pos, header, num_samples, pcm_data,
                    sample_rate >>
    /\ UNCHANGED jniVars

\* Lines 97-104, two channels are averaged into one.
Downmix ==
    /\ pc = "downmix"
    /\ header.num_channels = 2
    /\ pcm_data' = DownmixStereo(pcm_data, num_samples)
    /\ pc' = "close"
    /\ UNCHANGED << exists, file, handle, closes, pos, header, num_samples,
                    sample_rate, ret, err >>
    /\ UNCHANGED jniVars

\* Line 97, any other channel count.
SkipDownmix ==
    /\ pc = "downmix"
    /\ header.num_channels # 2
    /\ pc' = "close"
    /\ UNCHANGED << exists, file, handle, closes, pos, header, num_samples,
                    pcm_data, sample_rate, ret, err >>
    /\ UNCHANGED jniVars

\* Lines 106-108.
CloseAndReturn ==
    /\ pc = "close"
    /\ handle' = "closed"
    /\ closes' = closes + 1
    /\ ret' = "true"
    /\ pc' = "done"
    /\ UNCHANGED << exists, file, pos, header, num_samples, pcm_data,
                    sample_rate, err >>
    /\ UNCHANGED jniVars

\* The caller's locals go out of scope when it returns (lines 76-80 and
\* 107-126 of whisper_jni.cpp): nothing of the call is kept.
ForgetCall ==
    /\ exists' = FALSE
    /\ file' = <<>>
    /\ handle' = "none"
    /\ closes' = 0
    /\ pos' = 0
    /\ header' = NoHeader
    /\ num_samples' = 0
    /\ pcm_data' = <<>>
    /\ sample_rate' = 0
    /\ ret' = "none"
    /\ err' = ""
    /\ pc' = "idle"

\* A caller runs read_wav on a path, as nativeTranscribe does at lines
\* 73-75.
ReadWavCall ==
    /\ pc = "idle"
    /\ jpc = "idle"
    /\ \/ EnterReadWav(FALSE, <<>>)
       \/ \E h \in Headers, p \in Patterns, n \in 0..MaxPayload :
            EnterReadWav(TRUE, FullFile(h, p, n))
       \/ \E h \in Headers, c \in HeaderCuts :
            EnterReadWav(TRUE, CutFile(h, c))
    /\ UNCHANGED jniVars

\* That caller returns after read_wav did.
ReadWavReturn ==
    /\ pc = "done"
    /\ jpc = "idle"
    /\ ForgetCall
    /\ UNCHANGED jniVars

\* ------------------------------------------------------ whisper_jni

wavUnchanged ==
    UNCHANGED << pc, exists, file, handle, closes, pos, header, num_samples,
                 pcm_data, sample_rate, ret, err >>

\* The files nativeTranscribe is run on: one for each path through
\* read_wav.
JniFiles ==
    { FullFile(MakeHeader(TagRIFF, TagWAVE, Canonical, 2, 16, U32(0, 16000), 8),
               Pattern16, 8),
      FullFile(MakeHeader(TagRIFF, TagWAVE, Canonical, 1, 16, U32(0, 16000), 8),
               Pattern16, 6),
      FullFile(MakeHeader(TagRIFF, TagWAVE, Canonical, 1, 32, U32(0, 16000), 8),
               Pattern32, 8),
      FullFile(MakeHeader(TagRIFF, TagWAVE, Canonical, 1, 32, U32(0, 16000), 8),
               Pattern32, 4),
      FullFile(MakeHeader(TagRIFF, TagWAVE, Canonical, 1, 8, U32(0, 16000), 4),
               Pattern16, 4),
      FullFile(MakeHeader(TagRIFF, TagWAVE, Canonical, 1, 0, U32(0, 16000), 4),
               Pattern16, 4),
      FullFile(MakeHeader(TagRIFX, TagWAVE, Canonical, 1, 16, U32(0, 16000), 4),
               Pattern16, 4),
      CutFile(MakeHeader(TagRIFF, TagWAVE, Canonical, 1, 16, U32(0, 16000), 4),
              20) }

\* The contexts whisper_init_from_file has handed out so far.
Allocated == live \cup freed

\* A release that drops the pointer without whisper_free.
ReleaseContextLeak == [ live |-> live, freed |-> freed, badFree |-> badFree ]

\* whisper_free(g_context); g_context = nullptr;  when g_context is set
\* (lines 32-35 and 137-141).  Gives the context store after it.
ReleaseContext ==
    IF g_context # 0
    THEN [ live    |-> live \ { g_context },
           freed   |-> freed \cup { g_context },
           badFree |-> badFree \/ g_context \notin live ]
    ELSE [ live |-> live, freed |-> freed, badFree |-> badFree ]

\* nativeLoadModel, lines 22-49: the previous model is released, then
\* whisper_init_from_file gives a new context or nullptr.
nativeLoadModel ==
    /\ jpc = "idle"
    /\ pc = "idle"
    /\ LET st == ReleaseContext IN
         /\ freed' = st.freed
         /\ badFree' = st.badFree
         /\ \/ /\ g_context' = 0
               /\ live' = st.live
               /\ jret' = << "load", "false" >>
               /\ histLoaded' = FALSE
            \/ /\ Cardinality(Allocated) < MaxContexts
               /\ g_context' = Cardinality(Allocated) + 1
               /\ live' = st.live \cup { Cardinality(Allocated) + 1 }
               /\ jret' = << "load", "true" >>
               /\ histLoaded' = TRUE
    /\ UNCHANGED << badUse, jpc >>
    /\ wavUnchanged

\* nativeUnloadModel, lines 132-142.
nativeUnloadModel ==
    /\ jpc = "idle"
    /\ pc = "idle"
    /\ LET st == ReleaseContext IN
         /\ live' = st.live
         /\ freed' = st.freed
         /\ badFree' = st.badFree
    /\ g_context' = 0
    /\ jret' = << "unload", "" >>
    /\ histLoaded' = FALSE
    /\ UNCHANGED << badUse, jpc >>
    /\ wavUnchanged

\* nativeIsModelLoaded, lines 147-153.
nativeIsModelLoaded ==
    /\ jpc = "idle"
    /\ pc = "idle"
    /\ jret' = << "isLoaded", IF g_context # 0 THEN "true" ELSE "false" >>
    /\ UNCHANGED << g_context, live, freed, badFree, badUse, jpc, histLoaded >>
    /\ wavUnchanged

\* nativeTranscribe, lines 62-65: no model.
TranscribeNoModel ==
    /\ jpc = "idle"
    /\ pc = "idle"
    /\ g_context = 0
    /\ jret' = << "transcribe", "" >>
    /\ UNCHANGED << g_context, live, freed, badFree, badUse, jpc, histLoaded >>
    /\ wavUnchanged

\* nativeTranscribe, lines 67-75: read_wav is called on the audio path.
TranscribeReadWav ==
    /\ jpc = "idle"
    /\ pc = "idle"
    /\ g_context # 0
    /\ jpc' = "transcribe"
    /\ \/ EnterReadWav(FALSE, <<>>)
       \/ \E f \in JniFiles : EnterReadWav(TRUE, f)
    /\ UNCHANGED << g_context, live, freed, badFree, badUse, jret, histLoaded >>

\* nativeTranscribe, lines 75-80: read_wav failed.
TranscribeReadFailed ==
    /\ jpc = "transcribe"
    /\ pc = "done"
    /\ ret = "false"
    /\ jret' = << "transcribe", "" >>
    /\ jpc' = "idle"
    /\ ForgetCall
    /\ UNCHANGED << g_context, live, freed, badFree, badUse, histLoaded >>

\* nativeTranscribe, lines 82-126: whisper_full runs on g_context and
\* the segments' text, or "" when it fails, is returned.
TranscribeInfer ==
    /\ jpc = "transcribe"
    /\ pc = "done"
    /\ ret = "true"
    /\ badUse' = (badUse \/ g_context \notin live)
    /\ \E text \in { "", "text" } : jret' = << "transcribe", text >>
    /\ jpc' = "idle"
    /\ ForgetCall
    /\ UNCHANGED << g_context, live, freed, badFree, histLoaded >>

NextJni ==
    \/ nativeLoadModel
    \/ nativeUnloadModel
    \/ nativeIsModelLoaded
    \/ TranscribeNoModel
    \/ TranscribeReadWav
    \/ TranscribeReadFailed
    \/ TranscribeInfer
    \/ FopenFail
    \/ FopenOk
    \/ ReadHeaderFail
    \/ ReadHeaderOk
    \/ MagicFail
    \/ MagicPass
    \/ ComputeNumSamples
    \/ DivByZeroTrap
    \/ DivByZeroContinue
    \/ Read16Fail
    \/ Convert16
    \/ Read32Fail
    \/ Convert32
    \/ UnsupportedDepth
    \/ Downmix
    \/ SkipDownmix
    \/ CloseAndReturn

SpecJni == Init /\ [][NextJni]_vars

Next ==
    \/ ReadWavCall
    \/ ReadWavReturn
    \/ FopenFail
    \/ FopenOk
    \/ ReadHeaderFail
    \/ ReadHeaderOk
    \/ MagicFail
    \/ MagicPass
    \/ ComputeNumSamples
    \/ DivByZeroTrap
    \/ DivByZeroContinue
    \/ Read16Fail
    \/ Convert16
    \/ Read32Fail
    \/ Convert32
    \/ UnsupportedDepth
    \/ Downmix
    \/ SkipDownmix
    \/ CloseAndReturn

Spec == Init /\ [][Next]_vars

\* ------------------------------------------------ what the file holds

\* The fields of the file under decode, read off its bytes.
FileHasHeader == exists /\ Len(file) >= 44
FileTagsOk ==
    /\ SubSeq(file, 1, 4) = << 82, 73, 70, 70 >>
    /\ SubSeq(file, 9, 12) = << 87, 65, 86, 69 >>
FileChannels == file[23] + 256 * file[24]
FileRateLo == file[25] + 256 * file[26]
FileRateHi == file[27] + 256 * file[28]
FileBits == file[35] + 256 * file[36]
FileDataSize ==
    file[41] + 256 * file[42] + 65536 * (file[43] + 256 * file[44])
FileBytesPerSample == FileBits \div 8
FileSampleCount == FileDataSize \div FileBytesPerSample
FileAvailable == Len(file) - 44
FileValid == FileHasHeader /\ FileTagsOk /\ FileBits \in { 16, 32 }

\* The i-th stored sample (1-based), as a signed integer.
FileSample(i) ==
    LET at == 44 + FileBytesPerSample * (i - 1)
        lo == file[at + 1] + 256 * file[at + 2]
    IN  IF FileBits = 16
        THEN (IF lo >= 32768 THEN lo - 65536 ELSE lo)
        ELSE LET hi == file[at + 3] + 256 * file[at + 4]
             IN  (IF hi >= 32768 THEN hi - 65536 ELSE hi) * 65536 + lo

\* log2 of the divisor of the file's bit depth: 32768 or 2147483648.
FileDivisorLog == FileBits - 1

Returned == pc = "done"
Succeeded == pc = "done" /\ ret = "true"
Failed == pc = "done" /\ ret = "false"

\* The int n is the unsigned 32-bit number with halves hi, lo.
IntIsU32(n, hi, lo) == n >= 0 /\ n \div 65536 = hi /\ n % 65536 = lo

\* The float f is exactly s / 2^p.
ExactQuotient(f, s, p) ==
    LET n == f.e + p
    IN  IF f.m = 0 THEN s = 0
        ELSE IF n < 0 THEN FALSE
        ELSE IF n >= 31 THEN n = 31 /\ f.m = -1 /\ s = MinInt32
        ELSE s % Pow2(n) = 0 /\ s \div Pow2(n) = f.m

\* The float f is a binary32 value nearest to s / 2^p: one of the two
\* 24-bit neighbours of s, at most half a unit in the last place away.
NearestQuotient(f, s, p) ==
    LET k == ExcessBits(s, 0)
        q == s \div Pow2(k)
        r == s % Pow2(k)
    IN  \/ f = Canon(q, k - p) /\ 2 * r <= Pow2(k)
        \/ f = Canon(q + 1, k - p) /\ 2 * r >= Pow2(k)

\* The float o is exactly (a + b) / 2: it is the float32 mean and the
\* float32 sum lost no bit.
ExactMean(o, a, b) ==
    /\ o = Mean2(a, b)
    /\ \/ a.m = 0
       \/ b.m = 0
       \/ LET al == FAlign(a, b)
          IN  ~al.sticky /\ al.x % Pow2(ExcessBits(al.x, 0)) = 0

\* The normalized interleaved value of the i-th stored sample, as the
\* decoder's float arithmetic gives it.
FileNormalized(i) ==
    IF FileBits = 16 THEN Normalize16(FileSample(i)) ELSE Normalize32(FileSample(i))

\* ------------------------------------------------------------ claims

\* C1: whenever read_wav has returned from a call in which fopen succeeded,
\* fclose ran exactly once in that call and the handle is closed, whatever
\* the exit path; a call in which fopen failed closes nothing; and at no
\* point of a call has fclose run twice.
C1_ClosedExactlyOnce ==
    /\ closes <= 1
    /\ handle = "closed" <=> closes = 1
    /\ (Returned /\ exists) => (handle = "closed" /\ closes = 1)
    /\ (Returned /\ ~exists) => (handle = "none" /\ closes = 0)

C1_Witness ==
    /\ Failed
    /\ FileValid
    /\ err = "Failed to read PCM data"
    /\ closes = 1
    /\ handle = "closed"

\* C2: whenever read_wav has returned failure, the caller's pcm_data and
\* sample_rate hold what they held before the call (the empty vector and
\* 0 the caller passes in).  Stated for the calls in which line 62 is
\* defined (no header was read, or its bit depth is at least 8), so that
\* what refutes it is the code's defined behaviour.
C2_NoPartialResults ==
    (Failed /\ (FileHasHeader => FileBits >= 8))
    => (pcm_data = <<>> /\ sample_rate = 0)

\* C3: for a file with a complete header, valid tags and a bit depth other
\* than 16 and 32, a decode that has ended has returned the
\* unsupported-bit-depth failure.
C3_UnsupportedDepthFails ==
    (pc \in { "done", "crashed" } /\ FileHasHeader /\ FileTagsOk
       /\ FileBits \notin { 16, 32 })
    => (Failed /\ err = "Unsupported bit depth")

\* C4: for a file with a valid header and a bit depth of 16 or 32 that
\* holds fewer bytes after the header than sample_count samples take, a
\* decode that has returned has failed, at the payload read; so a
\* successful decode had every one of its samples in the file.
C4_TruncatedPayloadFails ==
    /\ (Returned /\ FileValid
          /\ FileAvailable < FileSampleCount * FileBytesPerSample)
       => (ret = "false" /\ err = "Failed to read PCM data")
    /\ Succeeded
       => (FileValid /\ 44 + FileSampleCount * FileBytesPerSample <= Len(file))

C4_Witness ==
    /\ Failed
    /\ FileValid
    /\ FileBits = 32
    /\ FileSampleCount = 2
    /\ FileAvailable = 7
    /\ err = "Failed to read PCM data"

\* C5: for a file of at least 44 bytes, a decode that has ended failed at
\* the magic-tag step exactly when bytes 0-3 are not "RIFF" or bytes 8-11
\* are not "WAVE", whatever the other header fields hold; and at that
\* failure no other field has been interpreted (no sample rate stored, no
\* sample count computed, no buffer resized).
C5_MagicTagsDecide ==
    /\ (pc \in { "done", "crashed" } /\ FileHasHeader)
       => ((Failed /\ err = "Invalid WAV file format") <=> ~FileTagsOk)
    /\ err = "Invalid WAV file format"
       => (Failed /\ sample_rate = 0 /\ num_samples = 0 /\ pcm_data = <<>>)

C5_Witness ==
    /\ Failed
    /\ FileHasHeader
    /\ SubSeq(file, 1, 4) = << 82, 73, 70, 70 >>
    /\ SubSeq(file, 9, 12) = << 119, 97, 118, 101 >>
    /\ SubSeq(file, 13, 16) = << 76, 73, 83, 84 >>
    /\ FileBits = 0
    /\ err = "Invalid WAV file format"

\* C6: for a successfully decoded two-channel file the output has
\* sample_count / 2 elements, element i is exactly the mean of the
\* normalized samples 2i and 2i+1 (0-based), and the sample rate returned
\* is the header's unsigned 32-bit sample rate.
C6_StereoDownmix ==
    (Succeeded /\ FileChannels = 2)
    => /\ Len(pcm_data) = FileSampleCount \div 2
       /\ \A i \in 1..Len(pcm_data) :
            ExactMean(pcm_data[i], FileNormalized(2 * i - 1), FileNormalized(2 * i))
       /\ IntIsU32(sample_rate, FileRateHi, FileRateLo)

C8_SampleRateIsHeaderField ==
    Succeeded => IntIsU32(sample_rate, FileRateHi, FileRateLo)

\* C9: a file with a valid header, a bit depth of 16 or 32 and
\* subchunk2_size = 0 decodes successfully to an empty sequence with the
\* header's sample rate, whatever follows the header.
C9_EmptyPayloadDecodes ==
    (pc \in { "done", "crashed" } /\ FileValid /\ FileDataSize = 0)
    => /\ Succeeded
       /\ pcm_data = <<>>
       /\ IntIsU32(sample_rate, FileRateHi, FileRateLo)

\* C10: in every state of a serial run of the four entry points at most
\* one context is live, none was freed twice or used after being freed,
\* g_context is set exactly when a context is live, which is exactly when
\* the last load succeeded and no unload followed; nativeIsModelLoaded
\* answered true exactly when a context is live; a failed load leaves no
\* context live; and no step of nativeTranscribe changes g_context or the
\* live and freed contexts.
C10_LifecycleInv ==
    /\ Cardinality(live) <= 1
    /\ ~badFree
    /\ ~badUse
    /\ live \cap freed = {}
    /\ g_context # 0 <=> live # {}
    /\ g_context # 0 => live = { g_context }
    /\ histLoaded <=> live # {}
    /\ jret[1] = "isLoaded" => (jret[2] = "true" <=> live # {})
    /\ jret = << "load", "false" >> => live = {}
    /\ jret = << "load", "true" >> => live # {}

C10_TranscribeKeepsModel ==
    (jpc = "transcribe" \/ jpc' = "transcribe" \/ jret'[1] = "transcribe")
    => (g_context' = g_context /\ live' = live /\ freed' = freed)

C10_ModelLifecycle ==
    [](C10_LifecycleInv) /\ [][C10_TranscribeKeepsModel]_vars

\* A second model replaced a first and a transcription ran on it.
C10_Witness ==
    /\ g_context = 2
    /\ live = { 2 }
    /\ freed = { 1 }
    /\ jret = << "transcribe", "text" >>

====
